---- MODULE Spec2Model ----
(***************************************************************************)
(* Model of examples/sample_project/advanced.cpp: the User record, the     *)
(* UserManager registry (std::map<string, shared_ptr<User>>) and the       *)
(* static DataProcessor functions.                                          *)
(*                                                                          *)
(* A std::string is a sequence of one-character strings.  A                *)
(* shared_ptr<User> is an index into heap (0 is nullptr), so that two      *)
(* handles to the same User alias each other as they do in the program.    *)
(* string::npos is modelled as -1, which keeps npos + 1 = 0 as the         *)
(* unsigned wrap-around of size_t does.                                     *)
(***************************************************************************)
EXTENDS Integers, Sequences, FiniteSets, TLC

VARIABLES heap, users, view, out, ret, op, lines

vars == <<heap, users, view, out, ret, op, lines>>

(* ------------------------------ bounds ---------------------------------- *)
\* Number of User objects the caller constructs (registry specification).
NumUsers == 2
\* Longest vector handed to the query functions.
MaxView == 3
\* Longest dataList handed to batchProcessUsers.
MaxLines == 2

(* --------------------------- strings ------------------------------------ *)
npos == -1

\* Character codes (ASCII) of the characters the model uses; std::map orders
\* its string keys by them.
CharCode(c) ==
    CASE c = "\t" -> 9
      [] c = " " -> 32
      [] c = "+" -> 43
      [] c = "," -> 44
      [] c = "-" -> 45
      [] c = "0" -> 48
      [] c = "1" -> 49
      [] c = "2" -> 50
      [] c = "3" -> 51
      [] c = "4" -> 52
      [] c = "5" -> 53
      [] c = "6" -> 54
      [] c = "7" -> 55
      [] c = "8" -> 56
      [] c = "9" -> 57
      [] c = "@" -> 64
      [] c = "A" -> 65
      [] c = "B" -> 66
      [] c = "a" -> 97
      [] c = "b" -> 98
      [] c = "c" -> 99
      [] c = "d" -> 100
      [] c = "e" -> 101
      [] c = "f" -> 102
      [] c = "x" -> 120

\* std::less<std::string>: lexicographic comparison by character code.
StrLess(s, t) ==
    \E i \in 1..(Len(t)) :
        /\ i <= Len(s) + 1
        /\ \A j \in 1..(i - 1) : s[j] = t[j]
        /\ \/ i = Len(s) + 1
           \/ CharCode(s[i]) < CharCode(t[i])

\* string::find(c, from): the 0-based position of the first c at or after
\* from, npos when there is none.
Find(s, c, from) ==
    LET hits == {i \in 0..(Len(s) - 1) : i >= from /\ s[i + 1] = c}
    IN  IF hits = {} THEN npos
        ELSE CHOOSE i \in hits : \A j \in hits : i <= j

\* string::substr(pos, count), pos <= size.
Substr(s, pos, count) ==
    LET n == IF count > Len(s) - pos THEN Len(s) - pos ELSE count
    IN  [i \in 1..n |-> s[pos + i]]

\* string::substr(pos): to the end of the string.
SubstrFrom(s, pos) == [i \in 1..(Len(s) - pos) |-> s[pos + i]]

(* ------------------------------ User ------------------------------------ *)
User(n, a, e) == [name |-> n, age |-> a, email |-> e]

validateName(u) == u.name # <<>>

\* Mutant of validateAge: the bounds are exclusive.
validateAge_Exclusive(u) == u.age > 18 /\ u.age < 150

validateAge(u) == u.age >= 18 /\ u.age <= 150

validateEmail(u) == Find(u.email, "@", 0) # npos

validate(u) == validateName(u) /\ validateAge(u) /\ validateEmail(u)

isAdult(u) == u.age >= 18

(* --------------------------- UserManager -------------------------------- *)
\* The keys of users in the iteration order of std::map (ascending).
RECURSIVE KeyOrder(_)
KeyOrder(K) ==
    IF K = {} THEN <<>>
    ELSE LET k == CHOOSE x \in K : \A y \in K \ {x} : StrLess(x, y)
         IN  <<k>> \o KeyOrder(K \ {k})

\* Mutant of AddUser: the users.find() test is missing, so a duplicate email
\* overwrites the stored entry and reports success.
AddUser_NoDupCheck(m, h, p) ==
    IF ~validate(h[p]) THEN [users |-> m, ret |-> FALSE]
    ELSE [users |-> [k \in DOMAIN m \cup {h[p].email} |->
                        IF k = h[p].email THEN p ELSE m[k]],
          ret |-> TRUE]

\* addUser(user): the map after the call and the value returned.
AddUser(m, h, p) ==
    IF ~validate(h[p]) THEN [users |-> m, ret |-> FALSE]
    ELSE IF h[p].email \in DOMAIN m THEN [users |-> m, ret |-> FALSE]
    ELSE [users |-> [k \in DOMAIN m \cup {h[p].email} |->
                        IF k = h[p].email THEN p ELSE m[k]],
          ret |-> TRUE]

GetUser(m, e) == IF e \in DOMAIN m THEN m[e] ELSE 0

RECURSIVE AdultsLoop(_, _, _)
AdultsLoop(m, h, keys) ==
    IF keys = <<>> THEN <<>>
    ELSE (IF isAdult(h[m[Head(keys)]]) THEN <<m[Head(keys)]>> ELSE <<>>)
         \o AdultsLoop(m, h, Tail(keys))

GetAdultUsers(m, h) == AdultsLoop(m, h, KeyOrder(DOMAIN m))

\* Mutant of RemoveUser: erases up to the end of the map instead of the one
\* entry found.
RemoveUser_EraseRange(m, e) ==
    IF e \notin DOMAIN m THEN [users |-> m, ret |-> FALSE]
    ELSE [users |-> [k \in {x \in DOMAIN m : StrLess(x, e)} |-> m[k]],
          ret |-> TRUE]

\* removeUser(email): the map after the call and the value returned.
RemoveUser(m, e) ==
    IF e \notin DOMAIN m THEN [users |-> m, ret |-> FALSE]
    ELSE [users |-> [k \in DOMAIN m \ {e} |-> m[k]], ret |-> TRUE]

(* ------------------------ registry specification ------------------------ *)
Names == {<<>>, <<"A">>}
Ages == {17, 18}
EmailA == <<"a", "@">>
EmailB == <<"b", "@">>
Emails == {EmailA, EmailB, <<"a">>}

Ptrs == 1..NumUsers

\* The call made last and its arguments (a handle, a string, integers).
Op(n, p, s, a) == [name |-> n, ptr |-> p, str |-> s, int |-> a]

Init ==
    /\ heap \in [Ptrs -> {User(n, a, e) : n \in Names, a \in Ages, e \in Emails}]
    /\ users = <<>>
    /\ view = <<>>
    /\ out = <<>>
    /\ ret = FALSE
    /\ op = Op("init", 0, <<>>, 0)
    /\ lines = <<>>

addUser ==
    \E p \in Ptrs :
        /\ users' = AddUser(users, heap, p).users
        /\ ret' = AddUser(users, heap, p).ret
        /\ op' = Op("addUser", p, <<>>, 0)
        /\ out' = <<>>
        /\ UNCHANGED <<heap, view, lines>>

getUser ==
    \E e \in Emails :
        /\ ret' = GetUser(users, e)
        /\ op' = Op("getUser", 0, e, 0)
        /\ out' = <<>>
        /\ UNCHANGED <<heap, users, view, lines>>

getAdultUsers ==
    /\ out' = GetAdultUsers(users, heap)
    /\ ret' = FALSE
    /\ op' = Op("getAdultUsers", 0, <<>>, 0)
    /\ UNCHANGED <<heap, users, view, lines>>

countUsers ==
    /\ ret' = Cardinality(DOMAIN users)
    /\ op' = Op("countUsers", 0, <<>>, 0)
    /\ out' = <<>>
    /\ UNCHANGED <<heap, users, view, lines>>

removeUser ==
    \E e \in Emails :
        /\ users' = RemoveUser(users, e).users
        /\ ret' = RemoveUser(users, e).ret
        /\ op' = Op("removeUser", 0, e, 0)
        /\ out' = <<>>
        /\ UNCHANGED <<heap, view, lines>>

clear ==
    /\ users' = <<>>
    /\ ret' = FALSE
    /\ op' = Op("clear", 0, <<>>, 0)
    /\ out' = <<>>
    /\ UNCHANGED <<heap, view, lines>>

setName ==
    \E p \in Ptrs, n \in Names :
        /\ heap' = [heap EXCEPT ![p].name = n]
        /\ ret' = FALSE
        /\ op' = Op("setName", p, n, 0)
        /\ out' = <<>>
        /\ UNCHANGED <<users, view, lines>>

setAge ==
    \E p \in Ptrs, a \in Ages :
        /\ heap' = [heap EXCEPT ![p].age = a]
        /\ ret' = FALSE
        /\ op' = Op("setAge", p, <<>>, a)
        /\ out' = <<>>
        /\ UNCHANGED <<users, view, lines>>

setEmail ==
    \E p \in Ptrs, e \in Emails :
        /\ heap' = [heap EXCEPT ![p].email = e]
        /\ ret' = FALSE
        /\ op' = Op("setEmail", p, e, 0)
        /\ out' = <<>>
        /\ UNCHANGED <<users, view, lines>>

Next ==
    \/ addUser
    \/ getUser
    \/ getAdultUsers
    \/ countUsers
    \/ removeUser
    \/ clear
    \/ setName
    \/ setAge
    \/ setEmail

Spec == Init /\ [][Next]_vars

(* --------------------------- DataProcessor ------------------------------ *)
Spaces == {" ", "\t", "\n", "\f", "\r"}
Digits == <<"0", "1", "2", "3", "4", "5", "6", "7", "8", "9">>
IsDigit(c) == \E d \in 1..10 : Digits[d] = c
DigitVal(c) == (CHOOSE d \in 1..10 : Digits[d] = c) - 1
INT_MIN == -2147483647 - 1

\* trim(str): strips the leading and trailing ' ' characters, nothing else.
trim(str) ==
    LET keep == {i \in 0..(Len(str) - 1) : str[i + 1] # " "}
    IN  IF keep = {} THEN <<>>
        ELSE LET first == CHOOSE i \in keep : \A j \in keep : i <= j
                 last == CHOOSE i \in keep : \A j \in keep : i >= j
             IN  Substr(str, first, last - first + 1)

\* The digits of s from 1-based position i on, accumulated as a negative
\* number so that INT_MIN is representable; ovf when the value leaves int.
RECURSIVE Accumulate(_, _, _)
Accumulate(s, i, n) ==
    IF i > Len(s) \/ ~IsDigit(s[i]) THEN [ovf |-> FALSE, n |-> n]
    ELSE LET d == DigitVal(s[i])
         IN  IF n < (INT_MIN + d + 9) \div 10 THEN [ovf |-> TRUE, n |-> 0]
             ELSE Accumulate(s, i + 1, n * 10 - d)

\* std::stoi(str): skips leading isspace characters, takes an optional sign
\* and the longest run of digits, ignores what follows; throws
\* invalid_argument without a digit and out_of_range outside int.
stoi(str) ==
    LET nonsp == {i \in 1..Len(str) : str[i] \notin Spaces}
        start == IF nonsp = {} THEN Len(str) + 1
                 ELSE CHOOSE i \in nonsp : \A j \in nonsp : i <= j
        signed == start <= Len(str) /\ str[start] \in {"+", "-"}
        neg == signed /\ str[start] = "-"
        first == IF signed THEN start + 1 ELSE start
        acc == Accumulate(str, first, 0)
    IN  IF first > Len(str) \/ ~IsDigit(str[first])
        THEN [ok |-> FALSE, val |-> 0]
        ELSE IF acc.ovf \/ (~neg /\ acc.n = INT_MIN)
        THEN [ok |-> FALSE, val |-> 0]
        ELSE [ok |-> TRUE, val |-> IF neg THEN acc.n ELSE 0 - acc.n]

NoUser == User(<<>>, 0, <<>>)

\* parseUserData(data): ok is FALSE for nullptr, else user is the new User.
ParseUserData(data) ==
    LET pos1 == Find(data, ",", 0)
        pos2 == Find(data, ",", pos1 + 1)
    IN  IF pos1 = npos \/ pos2 = npos THEN [ok |-> FALSE, user |-> NoUser]
        ELSE LET name == trim(Substr(data, 0, pos1))
                 ageStr == trim(Substr(data, pos1 + 1, pos2 - pos1 - 1))
                 email == trim(SubstrFrom(data, pos2 + 1))
                 age == stoi(ageStr)
             IN  IF ~age.ok THEN [ok |-> FALSE, user |-> NoUser]
                 ELSE [ok |-> TRUE, user |-> User(name, age.val, email)]

\* Mutant of BatchProcessUsers: the loop tests only that parsing succeeded.
RECURSIVE BatchProcessUsers_NoValidate(_)
BatchProcessUsers_NoValidate(dataList) ==
    IF dataList = <<>> THEN <<>>
    ELSE LET user == ParseUserData(Head(dataList))
         IN  (IF user.ok THEN <<user.user>> ELSE <<>>)
             \o BatchProcessUsers_NoValidate(Tail(dataList))

\* batchProcessUsers(dataList): the Users kept, in push_back order.
RECURSIVE BatchProcessUsers(_)
BatchProcessUsers(dataList) ==
    IF dataList = <<>> THEN <<>>
    ELSE LET user == ParseUserData(Head(dataList))
         IN  (IF user.ok /\ validate(user.user) THEN <<user.user>> ELSE <<>>)
             \o BatchProcessUsers(Tail(dataList))

RECURSIVE TotalAge(_, _)
TotalAge(v, h) == IF v = <<>> THEN 0 ELSE h[Head(v)].age + TotalAge(Tail(v), h)

\* calculateAverageAge(users): the quotient as <<numerator, denominator>>.
CalculateAverageAge(v, h) ==
    IF v = <<>> THEN <<0, 1>> ELSE <<TotalAge(v, h), Len(v)>>

\* Mutant of FilterByAgeRange: the upper bound is exclusive.
RECURSIVE FilterByAgeRange_Exclusive(_, _, _, _)
FilterByAgeRange_Exclusive(v, h, minAge, maxAge) ==
    IF v = <<>> THEN <<>>
    ELSE (IF h[Head(v)].age >= minAge /\ h[Head(v)].age < maxAge
          THEN <<Head(v)>> ELSE <<>>)
         \o FilterByAgeRange_Exclusive(Tail(v), h, minAge, maxAge)

\* filterByAgeRange(users, minAge, maxAge): the handles kept, in order.
RECURSIVE FilterByAgeRange(_, _, _, _)
FilterByAgeRange(v, h, minAge, maxAge) ==
    IF v = <<>> THEN <<>>
    ELSE (IF h[Head(v)].age >= minAge /\ h[Head(v)].age <= maxAge
          THEN <<Head(v)>> ELSE <<>>)
         \o FilterByAgeRange(Tail(v), h, minAge, maxAge)

\* The comparator sortByAge passes to std::sort.
Comp(h, ascending, a, b) ==
    IF ascending THEN h[a].age < h[b].age ELSE h[a].age > h[b].age

\* The arrangements of the positions I of v that std::sort may leave: every
\* permutation in which no element is ordered before an earlier one.  Which
\* one is chosen among equal ages is implementation-defined.
RECURSIVE Sorted(_, _, _, _)
Sorted(v, h, ascending, I) ==
    IF I = {} THEN {<<>>}
    ELSE UNION {
        {<<v[i]>> \o rest : rest \in Sorted(v, h, ascending, I \ {i})} :
            i \in {x \in I : \A y \in I : ~Comp(h, ascending, v[y], v[x])} }

SortByAge(v, h, ascending) == Sorted(v, h, ascending, DOMAIN v)

(* -------------------------- query specification ------------------------- *)
QAges == {17, 20, 25, 30, 35}
QBounds == {20, 30}

\* The i-th caller-built User: a valid name, a distinct valid email.
QUser(i, a) == User(<<"A">>, a, [j \in 1..(i + 1) |-> IF j <= i THEN "a" ELSE "@"])

\* The registry after addUser of the handles 1..n in turn.
RECURSIVE Registered(_, _)
Registered(h, n) ==
    IF n = 0 THEN <<>> ELSE AddUser(Registered(h, n - 1), h, n).users

QueryInit ==
    \E n \in 0..MaxView :
        \E ages \in [1..n -> QAges] :
            /\ heap = [i \in 1..n |-> QUser(i, ages[i])]
            /\ users = Registered(heap, n)
            /\ view = [i \in 1..n |-> i]
            /\ out = <<>>
            /\ ret = FALSE
            /\ op = Op("init", 0, <<>>, 0)
            /\ lines = <<>>

calculateAverageAge ==
    /\ ret' = CalculateAverageAge(view, heap)
    /\ op' = Op("calculateAverageAge", 0, <<>>, 0)
    /\ out' = <<>>
    /\ UNCHANGED <<heap, users, view, lines>>

\* Mutant of filterByAgeRange: the filter erases from the vector it is given.
filterByAgeRange_InPlace ==
    \E minAge \in QBounds, maxAge \in QBounds :
        /\ view' = FilterByAgeRange(view, heap, minAge, maxAge)
        /\ out' = view'
        /\ ret' = FALSE
        /\ op' = Op("filterByAgeRange", 0, <<>>, <<minAge, maxAge>>)
        /\ UNCHANGED <<heap, users, lines>>

filterByAgeRange ==
    \E minAge \in QBounds, maxAge \in QBounds :
        /\ out' = FilterByAgeRange(view, heap, minAge, maxAge)
        /\ ret' = FALSE
        /\ op' = Op("filterByAgeRange", 0, <<>>, <<minAge, maxAge>>)
        /\ UNCHANGED <<heap, users, view, lines>>

sortByAge ==
    \E ascending \in BOOLEAN :
        /\ view' \in SortByAge(view, heap, ascending)
        /\ ret' = FALSE
        /\ op' = Op("sortByAge", 0, <<>>, IF ascending THEN 1 ELSE 0)
        /\ out' = <<>>
        /\ UNCHANGED <<heap, users, lines>>

QueryNext ==
    \/ calculateAverageAge
    \/ filterByAgeRange
    \/ sortByAge

QuerySpec == QueryInit /\ [][QueryNext]_vars

(* -------------------------- parser specification ------------------------ *)
Line(n, a, e) == n \o <<",">> \o a \o <<",">> \o e

Name == <<" ", "B", " ">>
Mail == <<"b", "@">>

LineAges == {<<"1", "7">>, <<"1", "8">>, <<"1", "5", "0">>, <<"1", "5", "1">>}

OddAges ==
    { <<" ", "1", "7", " ">>, <<"1", "x">>, <<"x">>, <<>>,
      <<"-", "5">>, <<"+", "7">>, <<"\t", "1", "8">>,
      <<"2", "1", "4", "7", "4", "8", "3", "6", "4", "7">>,
      <<"2", "1", "4", "7", "4", "8", "3", "6", "4", "8">>,
      <<"-", "2", "1", "4", "7", "4", "8", "3", "6", "4", "8">>,
      <<"-", "2", "1", "4", "7", "4", "8", "3", "6", "4", "9">> }

\* The raw lines a caller may hand in: well-formed ones around the validation
\* boundaries, odd age fields, and lines with too few or too many commas.
Lines ==
    {Line(Name, a, Mail) : a \in LineAges \cup OddAges}
    \cup { Line(<<>>, <<"1", "8">>, Mail),
           Line(Name, <<"1", "8">>, <<"b">>),
           Line(Name, <<"1", "8">>, <<" ", "b", "@", ",", "c">>),
           <<>>, <<"B">>, <<"B", ",", "1", "8">>, <<",", ",">> }

ParseInit ==
    /\ \E n \in 0..MaxLines : lines \in [1..n -> Lines]
    /\ heap = <<>>
    /\ users = <<>>
    /\ view = <<>>
    /\ out = <<>>
    /\ ret = FALSE
    /\ op = Op("init", 0, <<>>, 0)

parseUserData ==
    \E i \in 1..Len(lines) :
        LET user == ParseUserData(lines[i])
        IN  /\ heap' = IF user.ok THEN <<user.user>> ELSE <<>>
            /\ ret' = IF user.ok THEN 1 ELSE 0
            /\ op' = Op("parseUserData", 0, lines[i], 0)
            /\ out' = <<>>
            /\ UNCHANGED <<users, view, lines>>

batchProcessUsers ==
    /\ heap' = BatchProcessUsers(lines)
    /\ out' = [i \in 1..Len(heap') |-> i]
    /\ ret' = 0
    /\ op' = Op("batchProcessUsers", 0, <<>>, 0)
    /\ UNCHANGED <<users, view, lines>>

validateUser ==
    \E p \in DOMAIN heap :
        /\ ret' = validate(heap[p])
        /\ op' = Op("validate", p, <<>>, 0)
        /\ UNCHANGED <<heap, users, view, out, lines>>

ParseNext ==
    \/ parseUserData
    \/ batchProcessUsers
    \/ validateUser

ParseSpec == ParseInit /\ [][ParseNext]_vars

(* ---------------------- claims on the registry -------------------------- *)
HasAt(s) == \E i \in 1..Len(s) : s[i] = "@"

Count(m) == Cardinality(DOMAIN m)

Occurrences(seq, x) == Cardinality({i \in 1..Len(seq) : seq[i] = x})

\* C1: addUser returns false and leaves the registry (keys, stored Records,
\* count) unchanged whenever the Record fails validation or a Record is
\* already stored under the same email key; a second insert of an email that
\* was just inserted returns false and keeps count().
C1_InsertRejected ==
    [][ /\ \A p \in Ptrs :
              ( /\ op'.name = "addUser"
                /\ op'.ptr = p
                /\ \/ heap[p].name = <<>>
                   \/ heap[p].age < 18
                   \/ heap[p].age > 150
                   \/ ~HasAt(heap[p].email)
                   \/ heap[p].email \in DOMAIN users )
              => ( /\ ret' = FALSE
                   /\ users' = users
                   /\ heap' = heap
                   /\ Count(users') = Count(users) )
        /\ ( /\ op.name = "addUser"
             /\ ret = TRUE
             /\ op'.name = "addUser"
             /\ heap[op'.ptr].email = heap[op.ptr].email )
           => ( ret' = FALSE /\ Count(users') = Count(users) )
      ]_vars

\* C1 witness: a valid Record was refused because its email is the key of
\* another stored Record.
C1_Witness ==
    /\ op.name = "addUser"
    /\ ret = FALSE
    /\ validate(heap[op.ptr])
    /\ heap[op.ptr].email \in DOMAIN users
    /\ users[heap[op.ptr].email] # op.ptr

\* C2 (as claimed): no two distinct entries of the registry hold Records with
\* the same email.
C2_OneRecordPerEmail ==
    \A k1 \in DOMAIN users : \A k2 \in DOMAIN users :
        k1 # k2 => heap[users[k1]].email # heap[users[k2]].email

\* C10 (as claimed): every stored Record satisfies validate() and is stored
\* under the key equal to its current email.
C10_StoredValidAndKeyed ==
    \A k \in DOMAIN users :
        /\ heap[users[k]].name # <<>>
        /\ heap[users[k]].age >= 18
        /\ heap[users[k]].age <= 150
        /\ HasAt(heap[users[k]].email)
        /\ heap[users[k]].email = k

\* C7 (as claimed): getAdultUsers returns every stored Record with age >= 18
\* exactly once, and no Record that is under 18 or not stored.
C7_AdultsExactlyOnce ==
    op.name = "getAdultUsers" =>
        \A p \in Ptrs :
            Occurrences(out, p) =
                IF (\E k \in DOMAIN users : users[k] = p) /\ heap[p].age >= 18
                THEN 1 ELSE 0

\* C8: removeUser(email) with the key present removes that one entry, keeps
\* every other entry, lowers count() by one and returns true; with the key
\* absent it returns false and the registry is unchanged.
C8_Remove ==
    [][ \A e \in Emails :
            (op'.name = "removeUser" /\ op'.str = e) =>
                IF e \in DOMAIN users
                THEN /\ ret' = TRUE
                     /\ DOMAIN users' = DOMAIN users \ {e}
                     /\ \A k \in DOMAIN users' : users'[k] = users[k]
                     /\ Count(users') = Count(users) - 1
                     /\ heap' = heap
                ELSE /\ ret' = FALSE
                     /\ users' = users
                     /\ heap' = heap
      ]_vars

\* C8 witness: an entry was removed and another entry is still stored.
C8_Witness ==
    /\ op.name = "removeUser"
    /\ ret = TRUE
    /\ op.str \notin DOMAIN users
    /\ users # <<>>

(* ------------------- claims on the query functions ---------------------- *)
QueryOps == {"calculateAverageAge", "filterByAgeRange", "sortByAge"}

C9_FilterInclusive ==
    op.name = "filterByAgeRange" =>
        LET K == {i \in DOMAIN view :
                     /\ op.int[1] <= heap[view[i]].age
                     /\ heap[view[i]].age <= op.int[2]}
        IN  /\ Len(out) = Cardinality(K)
            /\ \A i \in K : out[Cardinality({k \in K : k <= i})] = view[i]

\* C9 witness: with the range 20..30 a Record aged 20 and one aged 30 were
\* kept and one outside the range was dropped.
C9_Witness ==
    /\ op.name = "filterByAgeRange"
    /\ op.int = <<20, 30>>
    /\ \E i \in DOMAIN out : heap[out[i]].age = 20
    /\ \E i \in DOMAIN out : heap[out[i]].age = 30
    /\ Len(out) < Len(view)

(* ----------------------- claims on the parser --------------------------- *)
\* The text of s between its leading and trailing ' ' characters.
RECURSIVE SpaceTrimmed(_)
SpaceTrimmed(s) ==
    IF s = <<>> THEN <<>>
    ELSE IF Head(s) = " " THEN SpaceTrimmed(Tail(s))
    ELSE IF s[Len(s)] = " " THEN SpaceTrimmed(SubSeq(s, 1, Len(s) - 1))
    ELSE s

\* The digits of a base-10 integer literal: an optional sign, then digits only.
LiteralDigits(s) == IF s # <<>> /\ s[1] \in {"+", "-"} THEN Tail(s) ELSE s

\* d is at most the digit string lim of the same length.
AtMost(d, lim) ==
    \/ d = lim
    \/ \E i \in 1..Len(d) :
           /\ \A j \in 1..(i - 1) : d[j] = lim[j]
           /\ DigitVal(d[i]) < DigitVal(lim[i])

\* s is a base-10 integer literal whose value fits an int.
IsIntLiteral(s) ==
    LET d == LiteralDigits(s)
    IN  /\ d # <<>>
        /\ \A i \in 1..Len(d) : IsDigit(d[i])
        /\ \/ Len(d) < 10
           \/ /\ Len(d) = 10
              /\ AtMost(d, IF s[1] = "-"
                           THEN <<"2", "1", "4", "7", "4", "8", "3", "6", "4", "8">>
                           ELSE <<"2", "1", "4", "7", "4", "8", "3", "6", "4", "7">>)

\* The value of the integer literal s (negated digit by digit, so that the
\* least int is reached without leaving int).
RECURSIVE NegValue(_)
NegValue(d) ==
    IF d = <<>> THEN 0
    ELSE NegValue(SubSeq(d, 1, Len(d) - 1)) * 10 - DigitVal(d[Len(d)])

IntValue(s) ==
    IF s[1] = "-" THEN NegValue(LiteralDigits(s)) ELSE 0 - NegValue(LiteralDigits(s))

Commas(s) == {i \in 1..Len(s) : s[i] = ","}

\* C3 (as claimed): parseUserData returns none when the line has fewer than
\* two commas or the space-trimmed age field is not an integer, and otherwise
\* the Record of the space-trimmed name, the integer value of the
\* space-trimmed age field and the space-trimmed email, unvalidated.
C3_Parse ==
    op.name = "parseUserData" =>
        LET data == op.str
            c1 == CHOOSE i \in Commas(data) : \A j \in Commas(data) : i <= j
            later == Commas(data) \ {c1}
            c2 == CHOOSE i \in later : \A j \in later : i <= j
            ageText == SpaceTrimmed(SubSeq(data, c1 + 1, c2 - 1))
        IN  IF Cardinality(Commas(data)) < 2 THEN ret = 0
            ELSE IF ~IsIntLiteral(ageText) THEN ret = 0
            ELSE /\ ret = 1
                 /\ heap[1].name = SpaceTrimmed(SubSeq(data, 1, c1 - 1))
                 /\ heap[1].age = IntValue(ageText)
                 /\ heap[1].email = SpaceTrimmed(SubSeq(data, c2 + 1, Len(data)))

\* C4: batchProcessUsers returns exactly the Records of the lines that parse
\* and validate, one per such line, in input order.
C4_BatchKeepsValidInOrder ==
    op.name = "batchProcessUsers" =>
        LET parsed(i) == ParseUserData(lines[i])
            K == {i \in DOMAIN lines :
                     /\ parsed(i).ok
                     /\ parsed(i).user.name # <<>>
                     /\ parsed(i).user.age >= 18
                     /\ parsed(i).user.age <= 150
                     /\ HasAt(parsed(i).user.email)}
        IN  /\ Len(heap) = Cardinality(K)
            /\ out = [j \in 1..Cardinality(K) |-> j]
            /\ \A i \in K : heap[Cardinality({k \in K : k <= i})] = parsed(i).user

\* C4 witness: of two lines the first was dropped (it parses but fails
\* validation) and the second was kept.
C4_Witness ==
    /\ op.name = "batchProcessUsers"
    /\ Len(lines) = 2
    /\ ParseUserData(lines[1]).ok
    /\ Len(heap) = 1
    /\ heap[1] = ParseUserData(lines[2]).user

\* C6: validate() is true iff the name is non-empty, 18 <= age <= 150 and the
\* email contains '@'; 18 and 150 are valid ages, 17 and 151 are not.
C6_Validate ==
    op.name = "validate" =>
        LET r == heap[op.ptr]
        IN  /\ ret = (r.name # <<>> /\ 18 <= r.age /\ r.age <= 150 /\ HasAt(r.email))
            /\ (r.age \in {17, 151}) => ret = FALSE
            /\ (r.age \in {18, 150} /\ r.name # <<>> /\ HasAt(r.email)) => ret = TRUE

\* C6 witness: validate() accepted a Record of age 150.
C6_Witness ==
    /\ op.name = "validate"
    /\ ret = TRUE
    /\ heap[op.ptr].age = 150

====
